---- MODULE Spec2Model ----
(***************************************************************************)
(* Model of the hexagonal-grid A* path finder, src/src/game/AStar.ts.      *)
(*                                                                         *)
(* A coordinate is the pair <<x, y>>.  A PathNode is a record of the node  *)
(* arena `nodes`; a node reference is its index in the arena and 0 is the  *)
(* null reference.  The heuristic max(dx,dy) + min(dx,dy)/2 takes values   *)
(* that are multiples of 1/2, so h and f are held in units of 1/2          *)
(* (HalfUnits per step) and g in whole steps: f = HalfUnits*g + h.  The    *)
(* comparisons of the code on f are the same comparisons on these values.  *)
(*                                                                         *)
(* The second part models the bucket search of class Main,                 *)
(* src/src/game/interfaces/PathNode.ts.  A MapNode is a record of the      *)
(* array map_node; a node reference is its index in the array, from 0, and *)
(* NoNode is undefined.  An array is a function on 0..(length - 1), except *)
(* `opens`, `searched` and the neighbour lists, which are sequences:       *)
(* opens[i] of the code is opens[i + 1] here.                              *)
(*                                                                         *)
(* The third part models class MapView2, src/unnamed/part_003: its click   *)
(* handler and its own search on the rectangular grid.  Its variables have *)
(* the prefix v2_; a cell is the pair <<row, col>> and a node is a record  *)
(* of the arena v2_nodes.                                                  *)
(*                                                                         *)
(* The fourth part models class MapView, src/unnamed/part_002: its click   *)
(* handler, which builds an AStar and calls findPath of the first part.    *)
(* Its variables have the prefix view_.                                    *)
(***************************************************************************)
EXTENDS Integers, Sequences, FiniteSets, TLC

\* ---------------------------------------------------------------- bounds
MaxMapSize == 3
MaxObstacles == 2
\* the large grid of SpecLarge and the number of obstacles on it
LargeMapSize == 7
LargeObstacles == 1
\* the largest grid of SpecRepeat
RepeatMapSize == 2
\* the largest width and height of a scene of SpecBucket, and its blocked cells
SceneMaxSide == 3
SceneObstacles == 2
\* the side of the scene of SpecBucketLarge
LargeSceneSide == 4
\* the largest side of a scene of SpecReuse, and the searches made on it
ReuseSceneSide == 2
MaxSearches == 2
\* MAP_SIZE of the MapView2 of SpecRect (8 in the code) and the number of
\* obstacles generateObstacles draws (3 to 5 in the code)
RectMapSize == 5
RectObstacles == 3
\* MAP_SIZE of the MapView of SpecView (100 in the code), the largest number of
\* obstacles generateObstacles draws (600 to 699 in the code), and the clicks
ViewMapSize == 3
ViewObstacles == 2
MaxClicks == 4

\* the divisor of min(dx,dy)/2 in calculateHeuristic: h and f are kept doubled
HalfUnits == 2

VARIABLES
    phase,        \* "new" before the constructor ran, then "ready" or "failed"
    argMapSize,   \* the constructor's mapSize argument
    mapSize,      \* this.mapSize
    obstacles,    \* this.obstacles, the set of keys
    endPos,       \* this.endPos, None while never assigned
    pc,           \* "idle", "head" (while condition), "neighbors" (for loop), "done"
    start,        \* findPath's parameter start
    end,          \* findPath's parameter end
    nodes,        \* the PathNode objects the call keeps, by reference
    openList,     \* openList: sequence of node references
    openSet,      \* openSet: key -> node reference
    closedSet,    \* closedSet: set of keys
    currentNode,  \* currentNode of the running iteration, 0 before the first
    neighbors,    \* the neighbours of currentNode the for loop has yet to visit
    result,       \* what the last findPath call returned or threw
    remembered,   \* history: an earlier returned call, None while none is kept
    map_w,        \* createGameScene's w, 0 before the scene is created
    map_h,        \* createGameScene's h
    map_data,     \* this.map_data
    map_node,     \* this.map_node, the MapNode objects
    search_token, \* this.search_token
    search_pc,    \* "idle", "loop" (head of while (true)), "done"
    search_start, \* search's parameter start
    search_end,   \* search's parameter end
    base_cost,    \* base_cost
    opens,        \* opens, the ring of buckets
    cur,          \* cur
    searched,     \* searched
    search_result,\* what the last search returned, or how it ended
    indices,      \* history: the bucket indices the search computed so far
    searches,     \* history: the number of searches begun on this graph
    fresh,        \* history: the search made on the fresh graph, None while not kept
    v2_obstacles, \* MapView2.obstacles, as the set of its positions
    v2_startPos,  \* MapView2.startPos, None for null
    v2_endPos,    \* MapView2.endPos, None for null
    v2_pc,        \* "idle", "head" (while condition of findPath), "done"
    v2_nodes,     \* the node objects findPath keeps, by reference
    v2_openList,  \* openList of MapView2.findPath
    v2_closedList,\* closedList of MapView2.findPath
    v2_currentNode, \* currentNode of MapView2.findPath, 0 before the first
    v2_drawn,     \* the cells drawPath painted, None when drawPath was not called
    view_obstacles, \* MapView.obstacles, as the set of its positions
    view_startPos,  \* MapView.startPos, None for null
    view_endPos,    \* MapView.endPos, None for null
    view_pc,        \* "idle", or "findPath" while MapView.findPath runs
    view_clicks,    \* history: the number of clicks handled
    view_last       \* history: what the last click set, "none", "start" or "end"

finderVars == <<phase, argMapSize, mapSize, obstacles, endPos, pc, start, end, nodes,
                openList, openSet, closedSet, currentNode, neighbors, result, remembered>>

sceneVars == <<map_w, map_h, map_data, map_node, search_token, search_pc, search_start,
               search_end, base_cost, opens, cur, searched, search_result, indices,
               searches, fresh>>

rectVars == <<v2_obstacles, v2_startPos, v2_endPos, v2_pc, v2_nodes, v2_openList,
              v2_closedList, v2_currentNode, v2_drawn>>

viewVars == <<view_obstacles, view_startPos, view_endPos, view_pc, view_clicks, view_last>>

vars == <<finderVars, sceneVars, rectVars, viewVars>>

instance == <<phase, argMapSize, mapSize, obstacles>>

None == <<>>

\* undefined, where the code holds a MapNode reference
NoNode == 0 - 1

\* ------------------------------------------------------------ containers
\* mutant: the key written as `${y},${x}`
KeySwapped(x, y) == <<y, x>>

\* the position key `${x},${y}`: one key per integer pair
Key(x, y) == <<x, y>>

NewOpenList == <<>>

NewClosedSet == {}

NewOpenSet == <<>>

MapSet(map, key, value) == [k \in (DOMAIN map) \cup {key} |-> IF k = key THEN value ELSE map[k]]

\* mutant: delete leaves the entry in the map
MapDeleteKeeping(map, key) == map

MapDelete(map, key) == [k \in (DOMAIN map) \ {key} |-> map[k]]

\* mutant: has answers false for every key
SetHasNothing(set, key) == FALSE

\* SimpleSet.has
SetHas(set, key) == key \in set

\* SimpleMap.get: the value, or undefined (here the null reference 0)
MapGet(map, key) == IF key \in DOMAIN map THEN map[key] ELSE 0

\* --------------------------------------------------------------- results
NoResult == [kind |-> "none", error |-> "", path |-> <<>>]

Thrown(message) == [kind |-> "error", error |-> message, path |-> <<>>]

ReturnedNull == [kind |-> "null", error |-> "", path |-> <<>>]

ReturnedPath(path) == [kind |-> "path", error |-> "", path |-> path]

\* the path-building loop of Main.search runs round a cycle of prev links
NeverReturns == [kind |-> "never", error |-> "", path |-> <<>>]

\* ------------------------------------------------------- pure operations
\* mutant: the second direction of odd rows written as (-1, -1)
oddRowDirectionsMirrored == << <<0, -1>>, <<-1, -1>>, <<1, 0>>, <<1, 1>>, <<0, 1>>, <<-1, 0>> >>

\* mutant: the fifth direction of even rows written as (1, 1)
evenRowDirectionsMirrored == << <<-1, -1>>, <<0, -1>>, <<1, 0>>, <<0, 1>>, <<1, 1>>, <<-1, 0>> >>

oddRowDirections == << <<0, -1>>, <<1, -1>>, <<1, 0>>, <<1, 1>>, <<0, 1>>, <<-1, 0>> >>

evenRowDirections == << <<-1, -1>>, <<0, -1>>, <<1, 0>>, <<0, 1>>, <<-1, 1>>, <<-1, 0>> >>

Abs(n) == IF n < 0 THEN 0 - n ELSE n

Max(a, b) == IF a > b THEN a ELSE b

Min(a, b) == IF a < b THEN a ELSE b

\* mutant: the lower bounds tested with > instead of >=
isValidCoordinatePositive(x, y) == x > 0 /\ x < mapSize /\ y > 0 /\ y < mapSize

\* mutant: the upper bounds tested with <= instead of <
isValidCoordinateInclusive(x, y) == x >= 0 /\ x <= mapSize /\ y >= 0 /\ y <= mapSize

isValidCoordinate(x, y) == x >= 0 /\ x < mapSize /\ y >= 0 /\ y < mapSize

\* mutant: the obstacle test left out
isValidPositionIgnoringObstacles(x, y) == isValidCoordinate(x, y)

isValidPosition(x, y) == isValidCoordinate(x, y) /\ Key(x, y) \notin obstacles

\* max(dx,dy) + min(dx,dy)/2 against this.endPos, in units of 1/2
calculateHeuristic(x, y) ==
    LET dx == Abs(x - endPos[1])
        dy == Abs(y - endPos[2])
    IN  HalfUnits * Max(dx, dy) + Min(dx, dy)

\* mutant: the direction loop stops one direction early
getNeighborsSkippingLast(x, y) ==
    LET directions == IF y % 2 # 0 THEN oddRowDirections ELSE evenRowDirections
        moved == [i \in 1..(Len(directions) - 1) |->
                    <<x + directions[i][1], y + directions[i][2]>>]
    IN  SelectSeq(moved, LAMBDA c : isValidPosition(c[1], c[2]))

\* the coordinates of the nodes getNeighbors creates, in direction order
getNeighbors(x, y) ==
    LET directions == IF y % 2 # 0 THEN oddRowDirections ELSE evenRowDirections
        moved == [i \in 1..Len(directions) |->
                    <<x + directions[i][1], y + directions[i][2]>>]
    IN  SelectSeq(moved, LAMBDA c : isValidPosition(c[1], c[2]))

\* mutant: `list[i].f <= minNode.f`, which keeps the last minimum
RECURSIVE scanMinFLast(_, _, _)
scanMinFLast(list, i, minNode) ==
    IF i > Len(list) THEN minNode
    ELSE scanMinFLast(list, i + 1,
                      IF nodes[list[i]].f <= nodes[minNode].f THEN list[i] ELSE minNode)

RECURSIVE scanMinF(_, _, _)
scanMinF(list, i, minNode) ==
    IF i > Len(list) THEN minNode
    ELSE scanMinF(list, i + 1,
                  IF nodes[list[i]].f < nodes[minNode].f THEN list[i] ELSE minNode)

getMinFNode(list) == scanMinF(list, 2, list[1])

RECURSIVE removeAt(_, _, _)
removeAt(list, node, i) ==
    IF i > Len(list) THEN list
    ELSE IF nodes[list[i]].x = nodes[node].x /\ nodes[list[i]].y = nodes[node].y
         THEN SubSeq(list, 1, i - 1) \o SubSeq(list, i + 1, Len(list))
         ELSE removeAt(list, node, i + 1)

\* mutant: the node is left in the list
removeFromOpenListKeeping(list, node) == list

removeFromOpenList(list, node) == removeAt(list, node, 1)

RECURSIVE unshiftParents(_, _)
unshiftParents(current, path) ==
    IF current = 0 THEN path
    ELSE unshiftParents(nodes[current].parent, <<current>> \o path)

\* mutant: path.push instead of path.unshift
RECURSIVE pushParents(_, _)
pushParents(current, path) ==
    IF current = 0 THEN path
    ELSE pushParents(nodes[current].parent, Append(path, current))

buildPathPushed(endNode) == pushParents(endNode, <<>>)

\* mutant: `while (current.parent)`, which stops before the start node
RECURSIVE unshiftChildren(_, _)
unshiftChildren(current, path) ==
    IF nodes[current].parent = 0 THEN path
    ELSE unshiftChildren(nodes[current].parent, <<current>> \o path)

buildPathWithoutStart(endNode) == unshiftChildren(endNode, <<>>)

buildPath(endNode) == unshiftParents(endNode, <<>>)

\* ----------------------------------------------------------------- Init
\* class Main before $onAddToStage: no scene, search_token = 1
NoScene ==
    /\ map_w = 0
    /\ map_h = 0
    /\ map_data = <<>>
    /\ map_node = <<>>
    /\ search_token = 1
    /\ search_pc = "idle"
    /\ search_start = NoNode
    /\ search_end = NoNode
    /\ base_cost = 0
    /\ opens = <<>>
    /\ cur = NoNode
    /\ searched = <<>>
    /\ search_result = NoResult
    /\ indices = {}
    /\ searches = 0
    /\ fresh = None

\* no MapView2 was added to the stage
NoMapView2 ==
    /\ v2_obstacles = {}
    /\ v2_startPos = None
    /\ v2_endPos = None
    /\ v2_pc = "idle"
    /\ v2_nodes = <<>>
    /\ v2_openList = <<>>
    /\ v2_closedList = <<>>
    /\ v2_currentNode = 0
    /\ v2_drawn = None

\* no MapView was added to the stage
NoMapView ==
    /\ view_obstacles = {}
    /\ view_startPos = None
    /\ view_endPos = None
    /\ view_pc = "idle"
    /\ view_clicks = 0
    /\ view_last = "none"

Init ==
    /\ phase = "new"
    /\ argMapSize = 0
    /\ mapSize = 0
    /\ obstacles = {}
    /\ endPos = None
    /\ pc = "idle"
    /\ start = None
    /\ end = None
    /\ nodes = <<>>
    /\ openList = <<>>
    /\ openSet = <<>>
    /\ closedSet = {}
    /\ currentNode = 0
    /\ neighbors = <<>>
    /\ result = NoResult
    /\ remembered = None
    /\ NoScene
    /\ NoMapView2
    /\ NoMapView

\* ---------------------------------------------------------------- inputs
Cells(m) == {<<x, y>> : x \in 0..(m - 1), y \in 0..(m - 1)}

\* the obstacle lists a caller passes: at most MaxObstacles cells of the grid
RECURSIVE ObstacleLists(_, _)
ObstacleLists(m, most) ==
    IF most = 0 THEN {{}}
    ELSE LET fewer == ObstacleLists(m, most - 1)
         IN  fewer \cup {o \cup {c} : o \in fewer, c \in Cells(m)}

\* the coordinates a caller passes: the cells, and one coordinate beyond each of
\* the four edges of the grid (x < 0, x >= m, y < 0, y >= m)
Inputs(m) == Cells(m) \cup {<<0 - 1, 0>>, <<m, 0>>, <<0, 0 - 1>>, <<0, m>>}

\* --------------------------------------------------------------- actions
\* mutant: `mapSize < 0`
validMapSizeAllowingZero(m) == ~(m < 0)

\* the constructor's guard: it throws when mapSize <= 0
validMapSize(m) == ~(m <= 0)

\* constructor(mapSize, obstacles)
Construct(m, obs) ==
    /\ phase = "new"
    /\ argMapSize' = m
    /\ IF validMapSize(m)
       THEN /\ phase' = "ready"
            /\ mapSize' = m
            /\ obstacles' = obs
       ELSE /\ phase' = "failed"
            /\ UNCHANGED <<mapSize, obstacles>>
    /\ UNCHANGED <<endPos, pc, start, end, nodes, openList, openSet, closedSet,
                   currentNode, neighbors, result, remembered>>
    /\ UNCHANGED <<sceneVars, rectVars, viewVars>>

\* mutant: `this.endPos = end` moved above the validation
throwErrorAfterStoring(message) ==
    /\ result' = Thrown(message)
    /\ pc' = "done"
    /\ endPos' = end'
    /\ UNCHANGED <<nodes, openList, openSet, closedSet>>

\* a throw at the entry of findPath: no search state was built
throwError(message) ==
    /\ result' = Thrown(message)
    /\ pc' = "done"
    /\ UNCHANGED <<endPos, nodes, openList, openSet, closedSet>>

\* mutant: the field is assigned only when the row of the target changed
storeEndPosIfRowChanged(e) == IF endPos # None /\ endPos[2] = e[2] THEN endPos ELSE e

\* `this.endPos = end`: the value the field gets
storeEndPos(e) == e

\* findPath, from its entry to the head of the while loop
findPath(s, e) ==
    /\ phase = "ready"
    /\ pc = "idle"
    /\ start' = s
    /\ end' = e
    /\ IF ~isValidCoordinate(s[1], s[2]) THEN throwError("StartCoordinateInvalid")
       ELSE IF ~isValidCoordinate(e[1], e[2]) THEN throwError("EndCoordinateInvalid")
       ELSE IF Key(s[1], s[2]) \in obstacles THEN throwError("StartIsObstacle")
       ELSE IF Key(e[1], e[2]) \in obstacles THEN throwError("EndIsObstacle")
       ELSE /\ endPos' = storeEndPos(e)
            /\ LET h == calculateHeuristic(s[1], s[2])'
                   startNode == [x |-> s[1], y |-> s[2], g |-> 0, h |-> h,
                                 f |-> HalfUnits * 0 + h, parent |-> 0]
               IN  /\ nodes' = <<startNode>>
                   /\ openList' = Append(NewOpenList, 1)
                   /\ openSet' = MapSet(NewOpenSet, Key(s[1], s[2]), 1)
            /\ closedSet' = NewClosedSet
            /\ result' = NoResult
            /\ pc' = "head"
    /\ UNCHANGED <<instance, currentNode, neighbors, remembered>>
    /\ UNCHANGED <<sceneVars, rectVars, viewVars>>

\* one test of the while condition and the iteration's part before the for loop
whileLoop ==
    /\ pc = "head"
    /\ IF ~(Len(openList) > 0)
       THEN /\ result' = ReturnedNull
            /\ pc' = "done"
            /\ UNCHANGED <<openList, openSet, closedSet, currentNode, neighbors>>
       ELSE LET current == getMinFNode(openList)
                currentKey == Key(nodes[current].x, nodes[current].y)
            IN  /\ currentNode' = current
                /\ IF nodes[current].x = end[1] /\ nodes[current].y = end[2]
                   THEN /\ result' = ReturnedPath(buildPath(current))
                        /\ pc' = "done"
                        /\ UNCHANGED <<openList, openSet, closedSet, neighbors>>
                   ELSE /\ openList' = removeFromOpenList(openList, current)
                        /\ openSet' = MapDelete(openSet, currentKey)
                        /\ closedSet' = closedSet \cup {currentKey}
                        /\ neighbors' = getNeighbors(nodes[current].x, nodes[current].y)
                        /\ pc' = IF neighbors' = <<>> THEN "head" ELSE "neighbors"
                        /\ UNCHANGED result
    /\ UNCHANGED <<instance, endPos, start, end, nodes, remembered>>
    /\ UNCHANGED <<sceneVars, rectVars, viewVars>>

\* mutant: g and the parent are updated and f is left as it was
relaxedKeepingF(existing, gScore, current) ==
    [existing EXCEPT !.g = gScore, !.parent = current]

\* mutant: g and f are updated and the parent is left as it was
relaxedKeepingParent(existing, gScore, current) ==
    [existing EXCEPT !.g = gScore, !.f = HalfUnits * gScore + existing.h]

\* mutant: the parent is updated and g and f are left as they were
relaxedKeepingCost(existing, gScore, current) ==
    [existing EXCEPT !.parent = current]

\* the existing node after `existingNode.g = gScore`, `.f = gScore + .h`,
\* `.parent = currentNode`
relaxed(existing, gScore, current) ==
    [existing EXCEPT !.g = gScore, !.f = HalfUnits * gScore + existing.h,
                     !.parent = current]

\* one iteration of `for (const neighbor of neighbors)`
forNeighbor ==
    /\ pc = "neighbors"
    /\ LET neighbor == Head(neighbors)
           neighborKey == Key(neighbor[1], neighbor[2])
           gScore == nodes[currentNode].g + 1
           existingNode == MapGet(openSet, neighborKey)
       IN  IF SetHas(closedSet, neighborKey)
           THEN UNCHANGED <<nodes, openList, openSet>>
           ELSE IF existingNode = 0
           THEN LET h == calculateHeuristic(neighbor[1], neighbor[2])
                    created == [x |-> neighbor[1], y |-> neighbor[2], g |-> gScore,
                                h |-> h, f |-> HalfUnits * gScore + h,
                                parent |-> currentNode]
                IN  /\ nodes' = Append(nodes, created)
                    /\ openList' = Append(openList, Len(nodes) + 1)
                    /\ openSet' = MapSet(openSet, neighborKey, Len(nodes) + 1)
           ELSE IF gScore < nodes[existingNode].g
           THEN /\ nodes' = [nodes EXCEPT ![existingNode] =
                                              relaxed(@, gScore, currentNode)]
                /\ UNCHANGED <<openList, openSet>>
           ELSE UNCHANGED <<nodes, openList, openSet>>
    /\ neighbors' = Tail(neighbors)
    /\ pc' = IF neighbors' = <<>> THEN "head" ELSE "neighbors"
    /\ UNCHANGED <<instance, endPos, start, end, closedSet, currentNode, result,
                   remembered>>
    /\ UNCHANGED <<sceneVars, rectVars, viewVars>>

\* the call is over: the caller has the result and the call's locals are gone
returnToCaller ==
    /\ pc = "done"
    /\ pc' = "idle"
    /\ start' = None
    /\ end' = None
    /\ nodes' = <<>>
    /\ openList' = <<>>
    /\ openSet' = <<>>
    /\ closedSet' = {}
    /\ currentNode' = 0
    /\ neighbors' = <<>>
    /\ result' = NoResult
    /\ UNCHANGED <<instance, endPos, remembered>>
    /\ UNCHANGED <<sceneVars, rectVars, viewVars>>

\* --------------------------------------------------- class Main: the graph
idx_to_pos_x(idx, w, h) == idx % w

idx_to_pos_y(idx, w, h) == idx \div w

pos_to_idx(x, y, w, h) == x + y * w

get_cost(start_x, start_y, end_x, end_y) == Abs(end_x - start_x) + Abs(end_y - start_y)

\* the sets of at most `most` indices of an array of length n
RECURSIVE IndexSets(_, _)
IndexSets(n, most) ==
    IF most = 0 THEN {{}}
    ELSE LET fewer == IndexSets(n, most - 1)
         IN  fewer \cup {o \cup {i} : o \in fewer, i \in 0..(n - 1)}

\* the arrays createMap can return (Math.random() > .7 at each index) that have
\* at most `most` true entries; true is held as 1 and false as 0, which is how
\* the test `data[i] == 0` of createNodes reads them
createMap(w, h, most) ==
    {[i \in 0..(w * h - 1) |-> IF i \in o THEN 1 ELSE 0] : o \in IndexSets(w * h, most)}

\* new MapNode(x, y, v); the fields pos and c are never read
MapNode(x, y, v) ==
    [nodes |-> <<>>, x |-> x, y |-> y, v |-> v, prev |-> NoNode, cost |-> 0, token |-> 0]

\* `cond && data[target] == 0 && r[i].nodes.push(r[target])`: what is pushed
linked(data, cond, target) == IF cond /\ data[target] = 0 THEN <<target>> ELSE <<>>

createNodes(w, h, data) ==
    [i \in 0..(w * h - 1) |->
        LET x == idx_to_pos_x(i, w, h)
            y == idx_to_pos_y(i, w, h)
        IN  [MapNode(i % w, i \div w, data[i]) EXCEPT !.nodes =
                linked(data, x > 0, pos_to_idx(x - 1, y, w, h))
                \o linked(data, x < w - 1, pos_to_idx(x + 1, y, w, h))
                \o linked(data, y > 0, pos_to_idx(x, y - 1, w, h))
                \o linked(data, y > 0 /\ x < w - 1, pos_to_idx(x + 1, y - 1, w, h))
                \o linked(data, y < h - 1, pos_to_idx(x, y + 1, w, h))
                \o linked(data, y < h - 1 /\ x < w - 1, pos_to_idx(x + 1, y + 1, w, h))]]

\* -------------------------------------------------- class Main: the search
\* mutant: base_cost left as it is when the ring is rotated
baseCostKept(cost) == cost

\* base_cost++
baseCostRaised(cost) == cost + 1

\* opens.shift(); opens.push([])
rotated(ring) == Tail(ring) \o << <<>> >>

\* mutant: `while (cur.prev)`, which walks on through the start node
RECURSIVE walkPrevThroughStart(_, _)
walkPrevThroughStart(c, path) ==
    LET prev == map_node[c].prev
    IN  IF prev # NoNode
        THEN IF \E k \in 1..Len(path) : path[k] = prev
             THEN <<>>
             ELSE walkPrevThroughStart(prev, Append(path, prev))
        ELSE path

\* `while (cur.prev && cur.prev != start) { path.push(cur = cur.prev) }`: the
\* path, or <<>> when the walk comes back to a node it already pushed and so
\* never ends
RECURSIVE walkPrev(_, _)
walkPrev(c, path) ==
    LET prev == map_node[c].prev
    IN  IF prev # NoNode /\ prev # search_start
        THEN IF \E k \in 1..Len(path) : path[k] = prev
             THEN <<>>
             ELSE walkPrev(prev, Append(path, prev))
        ELSE path

\* get_cost(i.x, i.y, end_x, end_y) + i.cost - base_cost
bucketIndex(node, graph) ==
    get_cost(graph[node].x, graph[node].y, map_node[search_end].x, map_node[search_end].y)
        + graph[node].cost - base_cost

\* `for (let i of cur.nodes)` from its k-th element on.  st holds the nodes and
\* the ring as the loop left them, the indices it computed, and whether a push
\* hit an index that is no bucket: opens[index] is undefined there and the call
\* of push on it raises a TypeError, after token, cost and prev were assigned.
RECURSIVE forNodes(_, _, _, _)
forNodes(from, list, k, st) ==
    IF k > Len(list) \/ st.raised THEN st
    ELSE LET i == list[k]
         IN  IF search_token > st.graph[i].token
             THEN LET stamped == [st.graph EXCEPT ![i].token = search_token,
                                                  ![i].cost = st.graph[from].cost + 1,
                                                  ![i].prev = from]
                      index == bucketIndex(i, stamped)
                  IN  IF index \in 0..(Len(st.ring) - 1)
                      THEN forNodes(from, list, k + 1,
                               [graph |-> stamped,
                                ring |-> [st.ring EXCEPT ![index + 1] = Append(@, i)],
                                computed |-> st.computed \cup {index},
                                raised |-> FALSE])
                      ELSE [graph |-> stamped, ring |-> st.ring,
                            computed |-> st.computed \cup {index}, raised |-> TRUE]
             ELSE forNodes(from, list, k + 1, st)

\* search(start, end), from its entry to the head of while (true); the graph it
\* runs on is map_node'; no statement of the class writes search_token
search(s, e) ==
    /\ UNCHANGED search_token
    /\ search_start' = s
    /\ search_end' = e
    /\ base_cost' = get_cost(map_node'[s].x, map_node'[s].y, map_node'[e].x, map_node'[e].y)
    /\ opens' = << <<s>>, <<>>, <<>>, <<>> >>
    /\ cur' = NoNode
    /\ searched' = <<>>
    /\ search_result' = NoResult
    /\ search_pc' = "loop"
    /\ indices' = {}
    /\ searches' = searches + 1

\* createGameScene with w, h, the array createMap returned and the indices of
\* the start and end nodes (50, 50, 240 and 0 in the code), up to its call of
\* search
createGameScene(w, h, data, s, e) ==
    /\ search_pc = "idle"
    /\ map_w = 0
    /\ map_w' = w
    /\ map_h' = h
    /\ map_data' = [data EXCEPT ![e] = 0, ![s] = 0]
    /\ map_node' = createNodes(w, h, map_data')
    /\ search(s, e)
    /\ UNCHANGED fresh
    /\ UNCHANGED <<finderVars, rectVars, viewVars>>

\* a further call of search on the graph an earlier search has left
searchAgain(s, e) ==
    /\ search_pc = "done"
    /\ searches < MaxSearches
    /\ map_node' = map_node
    /\ search(s, e)
    /\ UNCHANGED <<map_w, map_h, map_data, fresh>>
    /\ UNCHANGED <<finderVars, rectVars, viewVars>>

\* one iteration of `while (true)`
searchLoop ==
    /\ search_pc = "loop"
    /\ IF Len(opens[1]) = 0 /\ Len(opens[2]) = 0 /\ Len(opens[3]) = 0 /\ Len(opens[4]) = 0
       THEN /\ search_result' = ReturnedNull
            /\ search_pc' = "done"
            /\ UNCHANGED <<map_node, base_cost, opens, cur, searched, indices>>
       ELSE LET popped == IF Len(opens[1]) = 0 THEN NoNode ELSE opens[1][Len(opens[1])]
                rest == [opens EXCEPT ![1] = SubSeq(@, 1, Len(@) - 1)]
            IN  /\ cur' = popped
                /\ IF popped # NoNode
                   THEN /\ searched' = Append(searched, popped)
                        /\ IF popped = search_end
                           THEN LET path == walkPrev(popped, <<popped>>)
                                IN  /\ search_result' = IF path = <<>> THEN NeverReturns
                                                        ELSE ReturnedPath(path)
                                    /\ search_pc' = "done"
                                    /\ opens' = rest
                                    /\ UNCHANGED <<map_node, base_cost, indices>>
                           ELSE LET st == forNodes(popped, map_node[popped].nodes, 1,
                                                   [graph |-> map_node, ring |-> rest,
                                                    computed |-> {}, raised |-> FALSE])
                                IN  /\ map_node' = st.graph
                                    /\ opens' = st.ring
                                    /\ indices' = indices \cup st.computed
                                    /\ search_result' = IF st.raised THEN Thrown("TypeError")
                                                        ELSE search_result
                                    /\ search_pc' = IF st.raised THEN "done" ELSE "loop"
                                    /\ UNCHANGED base_cost
                   ELSE /\ base_cost' = baseCostRaised(base_cost)
                        /\ opens' = rotated(opens)
                        /\ UNCHANGED <<map_node, searched, search_result, search_pc, indices>>
    /\ UNCHANGED <<map_w, map_h, map_data, search_token, search_start, search_end,
                   searches, fresh>>
    /\ UNCHANGED <<finderVars, rectVars, viewVars>>

\* ---------------------------------------------------------- class MapView2
\* the position `row + "," + col`
Position(row, col) == <<row, col>>

\* the obstacle lists generateObstacles can leave: `count` distinct positions
generateObstacles(size, count) ==
    {o \in ObstacleLists(size, count) : Cardinality(o) = count}

isObstacle(position) == position \in v2_obstacles

\* MapView2.getNeighbors: the cells of the node objects it creates, in the order
\* up, down, left, right; every object has g = h = f = 0 and parent = null
rectDirections == << <<0 - 1, 0>>, <<1, 0>>, <<0, 0 - 1>>, <<0, 1>> >>

rectNeighbors(row, col) ==
    LET moved == [i \in 1..Len(rectDirections) |->
                    <<row + rectDirections[i][1], col + rectDirections[i][2]>>]
    IN  SelectSeq(moved, LAMBDA c : /\ c[1] >= 0 /\ c[1] < RectMapSize
                                    /\ c[2] >= 0 /\ c[2] < RectMapSize
                                    /\ ~isObstacle(Position(c[1], c[2])))

\* isInList(node, list), for a node at `cell` and a list of references into arena
isInList(cell, list, arena) ==
    \E k \in 1..Len(list) : arena[list[k]].row = cell[1] /\ arena[list[k]].col = cell[2]

RECURSIVE rectScanMinF(_, _, _)
rectScanMinF(list, i, minNode) ==
    IF i > Len(list) THEN minNode
    ELSE rectScanMinF(list, i + 1,
                      IF v2_nodes[list[i]].f < v2_nodes[minNode].f THEN list[i] ELSE minNode)

\* MapView2.getMinFNode
rectGetMinFNode(list) == rectScanMinF(list, 2, list[1])

\* `openList.filter(...)`: the nodes that are not at the cell of `node`
rectFilter(list, node) ==
    SelectSeq(list, LAMBDA n : ~(v2_nodes[n].row = v2_nodes[node].row
                                 /\ v2_nodes[n].col = v2_nodes[node].col))

\* `for (var i = 0; i < neighbors.length; i++)` from its k-th element on; st
\* holds the arena and the open list as the loop left them.  The g that is
\* compared with gScore is the g of the object getNeighbors created: 0.
RECURSIVE rectForNeighbors(_, _, _, _, _)
rectForNeighbors(cells, k, current, closed, st) ==
    IF k > Len(cells) THEN st
    ELSE LET neighbor == [row |-> cells[k][1], col |-> cells[k][2],
                          g |-> 0, h |-> 0, f |-> 0, parent |-> 0]
             gScore == st.arena[current].g + 1
             inOpenList == isInList(cells[k], st.open, st.arena)
             h == Abs(v2_endPos[1] - neighbor.row) + Abs(v2_endPos[2] - neighbor.col)
             assigned == [neighbor EXCEPT !.g = gScore, !.h = h, !.f = gScore + h,
                                          !.parent = current]
         IN  IF isInList(cells[k], closed, st.arena)
             THEN rectForNeighbors(cells, k + 1, current, closed, st)
             ELSE IF (~inOpenList \/ gScore < neighbor.g) /\ ~inOpenList
             THEN rectForNeighbors(cells, k + 1, current, closed,
                      [arena |-> Append(st.arena, assigned),
                       open |-> Append(st.open, Len(st.arena) + 1)])
             ELSE rectForNeighbors(cells, k + 1, current, closed, st)

\* drawPath(endNode): the cells it paints, from the end node towards the start
RECURSIVE drawPath(_, _)
drawPath(current, painted) ==
    IF v2_nodes[current].parent # 0
    THEN LET cell == <<v2_nodes[current].row, v2_nodes[current].col>>
         IN  drawPath(v2_nodes[current].parent,
                      IF cell = v2_startPos \/ cell = v2_endPos THEN painted
                      ELSE Append(painted, cell))
    ELSE painted

\* MapView2.onGridClick(row, col): the whole handler when the click sets the
\* start; when it sets the end, up to the head of the while loop of findPath.
\* The locals of the findPath call of an earlier click are gone.
rectOnGridClick(row, col) ==
    /\ v2_pc \in {"idle", "done"}
    /\ LET reset == v2_startPos # None /\ v2_endPos # None
           startNow == IF reset THEN None ELSE v2_startPos
           endNow == IF reset THEN None ELSE v2_endPos
       IN  IF startNow = None
           THEN /\ v2_startPos' = <<row, col>>
                /\ v2_endPos' = endNow
                /\ v2_pc' = "idle"
                /\ v2_nodes' = <<>>
                /\ v2_openList' = <<>>
           ELSE /\ v2_startPos' = startNow
                /\ v2_endPos' = <<row, col>>
                /\ v2_pc' = "head"
                /\ LET h == Abs(row - startNow[1]) + Abs(col - startNow[2])
                   IN  v2_nodes' = << [row |-> startNow[1], col |-> startNow[2],
                                       g |-> 0, h |-> h, f |-> 0 + h, parent |-> 0] >>
                /\ v2_openList' = <<1>>
    /\ v2_closedList' = <<>>
    /\ v2_currentNode' = 0
    /\ v2_drawn' = None
    /\ UNCHANGED v2_obstacles
    /\ UNCHANGED <<finderVars, sceneVars, viewVars>>

\* one test of the while condition of MapView2.findPath and one iteration
rectWhileLoop ==
    /\ v2_pc = "head"
    /\ IF ~(Len(v2_openList) > 0)
       THEN /\ v2_pc' = "done"
            /\ UNCHANGED <<v2_nodes, v2_openList, v2_closedList, v2_currentNode, v2_drawn>>
       ELSE LET current == rectGetMinFNode(v2_openList)
            IN  /\ v2_currentNode' = current
                /\ IF v2_nodes[current].row = v2_endPos[1] /\ v2_nodes[current].col = v2_endPos[2]
                   THEN /\ v2_drawn' = drawPath(current, <<>>)
                        /\ v2_pc' = "done"
                        /\ UNCHANGED <<v2_nodes, v2_openList, v2_closedList>>
                   ELSE LET closed == Append(v2_closedList, current)
                            st == rectForNeighbors(
                                      rectNeighbors(v2_nodes[current].row, v2_nodes[current].col),
                                      1, current, closed,
                                      [arena |-> v2_nodes,
                                       open |-> rectFilter(v2_openList, current)])
                        IN  /\ v2_closedList' = closed
                            /\ v2_nodes' = st.arena
                            /\ v2_openList' = st.open
                            /\ UNCHANGED <<v2_pc, v2_drawn>>
    /\ UNCHANGED <<v2_obstacles, v2_startPos, v2_endPos>>
    /\ UNCHANGED <<finderVars, sceneVars, viewVars>>

\* ------------------------------------------------------------ class MapView
\* the obstacle lists MapView.generateObstacles can leave: distinct positions
\* `${x},${y}`, at least one and at most `most`
viewGenerateObstacles(size, most) == ObstacleLists(size, most) \ {{}}

\* MapView.isObstacle
viewIsObstacle(position) == position \in view_obstacles

\* mutant: initMap gives every cell a click handler
hasClickHandlerEverywhere(x, y) == TRUE

\* initMap adds a click handler to the cells that are no obstacles
hasClickHandler(x, y) == ~viewIsObstacle(Key(x, y))

\* mutant: the handler without the reset of a completed pair
viewOnGridClickWithoutReset(x, y) ==
    /\ view_pc = "idle"
    /\ view_clicks < MaxClicks
    /\ view_clicks' = view_clicks + 1
    /\ IF view_startPos = None
       THEN /\ view_startPos' = <<x, y>>
            /\ view_last' = "start"
            /\ UNCHANGED <<view_endPos, view_pc>>
       ELSE IF view_endPos = None
       THEN /\ view_endPos' = <<x, y>>
            /\ view_last' = "end"
            /\ view_pc' = "findPath"
            /\ UNCHANGED view_startPos
       ELSE UNCHANGED <<view_startPos, view_endPos, view_pc, view_last>>
    /\ UNCHANGED view_obstacles
    /\ UNCHANGED <<finderVars, sceneVars, rectVars>>

\* MapView.onGridClick(x, y), up to its call of this.findPath()
viewOnGridClick(x, y) ==
    /\ view_pc = "idle"
    /\ view_clicks < MaxClicks
    /\ view_clicks' = view_clicks + 1
    /\ LET reset == view_startPos # None /\ view_endPos # None
           startNow == IF reset THEN None ELSE view_startPos
           endNow == IF reset THEN None ELSE view_endPos
       IN  IF startNow = None
           THEN /\ view_startPos' = <<x, y>>
                /\ view_endPos' = endNow
                /\ view_last' = "start"
                /\ UNCHANGED view_pc
           ELSE IF endNow = None
           THEN /\ view_startPos' = startNow
                /\ view_endPos' = <<x, y>>
                /\ view_last' = "end"
                /\ view_pc' = "findPath"
           ELSE /\ view_startPos' = startNow
                /\ view_endPos' = endNow
                /\ UNCHANGED <<view_pc, view_last>>
    /\ UNCHANGED view_obstacles
    /\ UNCHANGED <<finderVars, sceneVars, rectVars>>

\* MapView.findPath: its guard, then `new AStar(this.MAP_SIZE, this.obstacles)`
viewNewAStar ==
    /\ view_pc = "findPath"
    /\ IF view_startPos = None \/ view_endPos = None
       THEN /\ view_pc' = "idle"
            /\ UNCHANGED <<view_obstacles, view_startPos, view_endPos, view_clicks, view_last>>
            /\ UNCHANGED <<finderVars, sceneVars, rectVars>>
       ELSE Construct(ViewMapSize, view_obstacles)

\* `astar.findPath(this.startPos, this.endPos)`
viewCallFindPath ==
    /\ view_pc = "findPath"
    /\ \E s \in {view_startPos}, e \in {view_endPos} : findPath(s, e)

\* the call returned or threw: the path is drawn, the handler ends, and the
\* AStar and the locals of the call are gone
viewReturn ==
    /\ view_pc = "findPath"
    /\ phase = "failed" \/ pc = "done"
    /\ view_pc' = "idle"
    /\ phase' = "new"
    /\ argMapSize' = 0
    /\ mapSize' = 0
    /\ obstacles' = {}
    /\ endPos' = None
    /\ pc' = "idle"
    /\ start' = None
    /\ end' = None
    /\ nodes' = <<>>
    /\ openList' = <<>>
    /\ openSet' = <<>>
    /\ closedSet' = {}
    /\ currentNode' = 0
    /\ neighbors' = <<>>
    /\ result' = NoResult
    /\ UNCHANGED remembered
    /\ UNCHANGED <<view_obstacles, view_startPos, view_endPos, view_clicks, view_last>>
    /\ UNCHANGED <<sceneVars, rectVars>>

\* -------------------------------------------------------- specifications
Next ==
    \/ \E m \in (0 - 1)..MaxMapSize : \E obs \in ObstacleLists(m, MaxObstacles) :
          Construct(m, obs)
    \/ \E s \in Inputs(mapSize), e \in Inputs(mapSize) : findPath(s, e)
    \/ whileLoop
    \/ forNeighbor
    \/ returnToCaller

Spec == Init /\ [][Next]_vars

\* findPath is synchronous: once entered, its loops keep running
SpecFair == Spec /\ WF_vars(whileLoop) /\ WF_vars(forNeighbor)

\* A large grid, already constructed, with at most LargeObstacles obstacles; the
\* caller asks for the crossings from a cell of the first row to one of the last.
InitLarge ==
    /\ phase = "ready"
    /\ argMapSize = LargeMapSize
    /\ mapSize = LargeMapSize
    /\ obstacles \in ObstacleLists(LargeMapSize, LargeObstacles)
    /\ endPos = None
    /\ pc = "idle"
    /\ start = None
    /\ end = None
    /\ nodes = <<>>
    /\ openList = <<>>
    /\ openSet = <<>>
    /\ closedSet = {}
    /\ currentNode = 0
    /\ neighbors = <<>>
    /\ result = NoResult
    /\ remembered = None
    /\ NoScene
    /\ NoMapView2
    /\ NoMapView

FirstRow(m) == {c \in Cells(m) : c[2] = 0}

LastRow(m) == {c \in Cells(m) : c[2] = m - 1}

NextLarge ==
    \/ \E s \in FirstRow(mapSize), e \in LastRow(mapSize) : findPath(s, e)
    \/ whileLoop
    \/ forNeighbor
    \/ returnToCaller

SpecLarge == InitLarge /\ [][NextLarge]_vars

\* Observers of SpecRepeat: they keep one returned call and the kinds of result
\* of the calls with other arguments that completed after it.
PathCoordsOf(path) == [i \in 1..Len(path) |-> <<nodes[path[i]].x, nodes[path[i]].y>>]

Remember ==
    /\ pc = "done"
    /\ result.kind \in {"path", "null"}
    /\ remembered = None
    /\ remembered' = [start |-> start, end |-> end, kind |-> result.kind,
                      coords |-> PathCoordsOf(result.path), between |-> {}]
    /\ UNCHANGED <<instance, endPos, pc, start, end, nodes, openList, openSet,
                   closedSet, currentNode, neighbors, result>>
    /\ UNCHANGED <<sceneVars, rectVars, viewVars>>

NoteBetween ==
    /\ pc = "done"
    /\ remembered # None
    /\ <<start, end>> # <<remembered.start, remembered.end>>
    /\ result.kind \notin remembered.between
    /\ remembered' = [remembered EXCEPT !.between = @ \cup {result.kind}]
    /\ UNCHANGED <<instance, endPos, pc, start, end, nodes, openList, openSet,
                   closedSet, currentNode, neighbors, result>>
    /\ UNCHANGED <<sceneVars, rectVars, viewVars>>

\* A constructed instance on a grid of side at most RepeatMapSize.
InitRepeat ==
    /\ phase = "ready"
    /\ argMapSize \in 1..RepeatMapSize
    /\ mapSize = argMapSize
    /\ obstacles \in ObstacleLists(mapSize, MaxObstacles)
    /\ endPos = None
    /\ pc = "idle"
    /\ start = None
    /\ end = None
    /\ nodes = <<>>
    /\ openList = <<>>
    /\ openSet = <<>>
    /\ closedSet = {}
    /\ currentNode = 0
    /\ neighbors = <<>>
    /\ result = NoResult
    /\ remembered = None
    /\ NoScene
    /\ NoMapView2
    /\ NoMapView

NextRepeat ==
    \/ \E s \in Inputs(mapSize), e \in Inputs(mapSize) : findPath(s, e)
    \/ whileLoop
    \/ forNeighbor
    \/ returnToCaller
    \/ Remember
    \/ NoteBetween

SpecRepeat == InitRepeat /\ [][NextRepeat]_vars

\* One scene of width and height at most SceneMaxSide and its search.
NextBucket ==
    \/ \E w \in 1..SceneMaxSide, h \in 1..SceneMaxSide :
          \E data \in createMap(w, h, SceneObstacles) :
             \E s \in 0..(w * h - 1), e \in 0..(w * h - 1) : createGameScene(w, h, data, s, e)
    \/ searchLoop

SpecBucket == Init /\ [][NextBucket]_vars

\* One square scene of side LargeSceneSide, searched from a node of its first
\* row to a node of its last row.
FirstRowNodes(w, h) == 0..(w - 1)

LastRowNodes(w, h) == ((h - 1) * w)..(h * w - 1)

NextBucketLarge ==
    \/ \E data \in createMap(LargeSceneSide, LargeSceneSide, SceneObstacles) :
          \E s \in FirstRowNodes(LargeSceneSide, LargeSceneSide),
             e \in LastRowNodes(LargeSceneSide, LargeSceneSide) :
                createGameScene(LargeSceneSide, LargeSceneSide, data, s, e)
    \/ searchLoop

SpecBucketLarge == Init /\ [][NextBucketLarge]_vars

\* Observer of SpecReuse: it keeps the search that ran on the fresh graph.
RememberFresh ==
    /\ search_pc = "done"
    /\ searches = 1
    /\ fresh = None
    /\ fresh' = [start |-> search_start, end |-> search_end, result |-> search_result]
    /\ UNCHANGED <<map_w, map_h, map_data, map_node, search_token, search_pc,
                   search_start, search_end, base_cost, opens, cur, searched,
                   search_result, indices, searches>>
    /\ UNCHANGED <<finderVars, rectVars, viewVars>>

\* One scene of side at most ReuseSceneSide, searched MaxSearches times.
NextReuse ==
    \/ \E w \in 1..ReuseSceneSide, h \in 1..ReuseSceneSide :
          \E data \in createMap(w, h, SceneObstacles) :
             \E s \in 0..(w * h - 1), e \in 0..(w * h - 1) : createGameScene(w, h, data, s, e)
    \/ searchLoop
    \/ RememberFresh
    \/ \E s \in DOMAIN map_node, e \in DOMAIN map_node :
          map_data[s] = 0 /\ map_data[e] = 0 /\ searchAgain(s, e)

SpecReuse == Init /\ [][NextReuse]_vars

\* The same grid given to both searches: findPath on a constructed instance, then
\* a scene of the same side whose blocked cells are the instance's obstacles,
\* searched between the same two cells.
InitJoint ==
    /\ phase = "ready"
    /\ argMapSize \in 1..MaxMapSize
    /\ mapSize = argMapSize
    /\ obstacles \in ObstacleLists(mapSize, MaxObstacles)
    /\ endPos = None
    /\ pc = "idle"
    /\ start = None
    /\ end = None
    /\ nodes = <<>>
    /\ openList = <<>>
    /\ openSet = <<>>
    /\ closedSet = {}
    /\ currentNode = 0
    /\ neighbors = <<>>
    /\ result = NoResult
    /\ remembered = None
    /\ NoScene
    /\ NoMapView2
    /\ NoMapView

\* the array that blocks the cells of the obstacle set
DataOf(m, obs) ==
    [i \in 0..(m * m - 1) |-> IF Key(i % m, i \div m) \in obs THEN 1 ELSE 0]

NextJoint ==
    \/ \E s \in Cells(mapSize) \ obstacles, e \in Cells(mapSize) \ obstacles : findPath(s, e)
    \/ whileLoop
    \/ forNeighbor
    \/ pc = "done" /\ createGameScene(mapSize, mapSize, DataOf(mapSize, obstacles),
                                       pos_to_idx(start[1], start[2], mapSize, mapSize),
                                       pos_to_idx(end[1], end[2], mapSize, mapSize))
    \/ searchLoop

SpecJoint == InitJoint /\ [][NextJoint]_vars

\* A MapView2 after onAddToStage, with RectObstacles obstacles on a grid of side
\* RectMapSize; the clicks that set the start are on passable cells of the last
\* column and the clicks that set the end on passable cells of the first column.
InitRect ==
    /\ phase = "new"
    /\ argMapSize = 0
    /\ mapSize = 0
    /\ obstacles = {}
    /\ endPos = None
    /\ pc = "idle"
    /\ start = None
    /\ end = None
    /\ nodes = <<>>
    /\ openList = <<>>
    /\ openSet = <<>>
    /\ closedSet = {}
    /\ currentNode = 0
    /\ neighbors = <<>>
    /\ result = NoResult
    /\ remembered = None
    /\ NoScene
    /\ v2_obstacles \in generateObstacles(RectMapSize, RectObstacles)
    /\ v2_startPos = None
    /\ v2_endPos = None
    /\ v2_pc = "idle"
    /\ v2_nodes = <<>>
    /\ v2_openList = <<>>
    /\ v2_closedList = <<>>
    /\ v2_currentNode = 0
    /\ v2_drawn = None
    /\ NoMapView

NextRect ==
    \/ \E row \in 0..(RectMapSize - 1) :
          LET col == IF v2_startPos = None \/ v2_endPos # None THEN RectMapSize - 1 ELSE 0
          IN  ~isObstacle(Position(row, col)) /\ rectOnGridClick(row, col)
    \/ rectWhileLoop

SpecRect == InitRect /\ [][NextRect]_vars

\* A MapView after onAddToStage on a grid of side ViewMapSize, and its clicks.
InitView ==
    /\ phase = "new"
    /\ argMapSize = 0
    /\ mapSize = 0
    /\ obstacles = {}
    /\ endPos = None
    /\ pc = "idle"
    /\ start = None
    /\ end = None
    /\ nodes = <<>>
    /\ openList = <<>>
    /\ openSet = <<>>
    /\ closedSet = {}
    /\ currentNode = 0
    /\ neighbors = <<>>
    /\ result = NoResult
    /\ remembered = None
    /\ NoScene
    /\ NoMapView2
    /\ view_obstacles \in viewGenerateObstacles(ViewMapSize, ViewObstacles)
    /\ view_startPos = None
    /\ view_endPos = None
    /\ view_pc = "idle"
    /\ view_clicks = 0
    /\ view_last = "none"

NextView ==
    \/ \E x \in 0..(ViewMapSize - 1), y \in 0..(ViewMapSize - 1) :
          hasClickHandler(x, y) /\ viewOnGridClick(x, y)
    \/ viewNewAStar
    \/ viewCallFindPath
    \/ whileLoop
    \/ forNeighbor
    \/ viewReturn

SpecView == InitView /\ [][NextView]_vars

\* ------------------------------------------------- reference definitions
\* The grid as the specification describes it, written without the operators
\* above: bounds, obstacles, the two offset tables and breadth-first search.
InBounds(c) == c[1] \in 0..(mapSize - 1) /\ c[2] \in 0..(mapSize - 1)

Blocked(c) == c \in obstacles

Passable(c) == InBounds(c) /\ ~Blocked(c)

OddRowOffsets == {<<0, -1>>, <<1, -1>>, <<1, 0>>, <<1, 1>>, <<0, 1>>, <<-1, 0>>}

EvenRowOffsets == {<<-1, -1>>, <<0, -1>>, <<1, 0>>, <<0, 1>>, <<-1, 1>>, <<-1, 0>>}

HexAdjacent(a, b) ==
    \E o \in (IF a[2] % 2 = 1 THEN OddRowOffsets ELSE EvenRowOffsets) :
        b = <<a[1] + o[1], a[2] + o[2]>>

HexSteps(a) == {b \in Cells(mapSize) : Passable(b) /\ HexAdjacent(a, b)}

RECURSIVE BreadthFirst(_, _, _, _)
BreadthFirst(frontier, seen, to, depth) ==
    IF to \in frontier THEN depth
    ELSE IF frontier = {} THEN 0 - 1
    ELSE LET reached == (UNION {HexSteps(a) : a \in frontier}) \ seen
         IN  BreadthFirst(reached, seen \cup reached, to, depth + 1)

\* the number of steps of a shortest path, or -1 when there is none
ShortestSteps(from, to) == BreadthFirst({from}, {from}, to, 0)

Returned == pc = "done" /\ result.kind \in {"path", "null"}

ReturnedAPath == pc = "done" /\ result.kind = "path"

Threw == pc = "done" /\ result.kind = "error"

\* the coordinates of the returned path, in order
PathCoords == PathCoordsOf(result.path)

InvalidCoordinateErrors == {"StartCoordinateInvalid", "EndCoordinateInvalid"}

BlockedEndpointErrors == {"StartIsObstacle", "EndIsObstacle"}

\* the grid without its obstacles
FreeHexSteps(a) == {b \in Cells(mapSize) : HexAdjacent(a, b)}

RECURSIVE FreeBreadthFirst(_, _, _, _)
FreeBreadthFirst(frontier, seen, to, depth) ==
    IF to \in frontier THEN depth
    ELSE IF frontier = {} THEN 0 - 1
    ELSE LET reached == (UNION {FreeHexSteps(a) : a \in frontier}) \ seen
         IN  FreeBreadthFirst(reached, seen \cup reached, to, depth + 1)

\* the number of steps between two cells of the obstacle-free grid
FreeSteps(from, to) == FreeBreadthFirst({from}, {from}, to, 0)

\* The scene's graph as the specification describes it, written without
\* createNodes: a node links to its left, right, up, up-right, down and
\* down-right neighbours that are inside the scene and passable.
LinkOffsets == {<<0 - 1, 0>>, <<1, 0>>, <<0, 0 - 1>>, <<1, 0 - 1>>, <<0, 1>>, <<1, 1>>}

CellOf(i) == <<i % map_w, i \div map_w>>

Linked(a, b) ==
    /\ map_data[b] = 0
    /\ \E o \in LinkOffsets : CellOf(b) = <<CellOf(a)[1] + o[1], CellOf(a)[2] + o[2]>>

LinkSteps(a) == {b \in DOMAIN map_data : Linked(a, b)}

RECURSIVE LinkBreadthFirst(_, _, _, _)
LinkBreadthFirst(frontier, seen, to, depth) ==
    IF to \in frontier THEN depth
    ELSE IF frontier = {} THEN 0 - 1
    ELSE LET reached == (UNION {LinkSteps(a) : a \in frontier}) \ seen
         IN  LinkBreadthFirst(reached, seen \cup reached, to, depth + 1)

\* the number of links of a shortest chain of links, or -1 when there is none
LinkShortest(from, to) == LinkBreadthFirst({from}, {from}, to, 0)

SearchReturnedAPath == search_pc = "done" /\ search_result.kind = "path"

\* the steps of a returned bucket path: it holds every node but the start
BucketSteps == IF search_start = search_end THEN 0 ELSE Len(search_result.path)

\* f - base_cost of a node, from its fields
Slack(n) ==
    Abs(map_node[n].x - map_node[search_end].x) + Abs(map_node[n].y - map_node[search_end].y)
        + map_node[n].cost - base_cost

\* ----------------------------------------------------------------- claims
\* C1: the number of steps of a returned path (its length minus one) is the
\* number of steps of a shortest path from start to end, found breadth-first.
C1_Optimal ==
    ReturnedAPath => Len(result.path) - 1 = ShortestSteps(start, end)

\* C2: every coordinate of a returned path is in bounds and no obstacle, and
\* each coordinate is one of the six row-parity neighbours of the one before it.
C2_PathValid ==
    ReturnedAPath =>
        /\ \A i \in 1..Len(PathCoords) : Passable(PathCoords[i])
        /\ \A i \in 1..(Len(PathCoords) - 1) : HexAdjacent(PathCoords[i], PathCoords[i + 1])

C2_Witness ==
    /\ ReturnedAPath
    /\ Len(PathCoords) >= 4
    /\ obstacles # {}
    /\ \E i \in 1..(Len(PathCoords) - 1) : PathCoords[i][2] % 2 = 1
    /\ \E i \in 1..(Len(PathCoords) - 1) : PathCoords[i][2] % 2 = 0

\* C3: a returned path starts at start, ends at end, and is the parent chain of
\* the end node reversed: the first node has no parent and every other node's
\* parent is the node before it.
C3_StartToEnd ==
    ReturnedAPath =>
        /\ Len(result.path) >= 1
        /\ PathCoords[1] = start
        /\ PathCoords[Len(PathCoords)] = end
        /\ result.path[Len(result.path)] = currentNode
        /\ nodes[result.path[1]].parent = 0
        /\ \A i \in 2..Len(result.path) : nodes[result.path[i]].parent = result.path[i - 1]

C3_Witness == ReturnedAPath /\ Len(result.path) >= 3 /\ start # end

\* C4: for a passable start and end, findPath returns (it does not throw), and it
\* returns null exactly when end cannot be reached from start.
C4_NullIffUnreachable ==
    (pc = "done" /\ Passable(start) /\ Passable(end)) =>
        /\ result.kind \in {"path", "null"}
        /\ (result.kind = "null") <=> (ShortestSteps(start, end) < 0)

C4_Witness ==
    /\ pc = "done"
    /\ result.kind = "null"
    /\ Passable(start) /\ Passable(end)
    /\ Cardinality(obstacles) >= 2
    /\ Cardinality(closedSet) >= 1

\* C5: without obstacles, every pair of in-bounds coordinates gets a path.
C5_NoObstaclesAlwaysPath ==
    (pc = "done" /\ obstacles = {} /\ InBounds(start) /\ InBounds(end)) =>
        mapSize > 0 /\ result.kind = "path"

C5_Witness ==
    /\ ReturnedAPath
    /\ obstacles = {}
    /\ mapSize >= 3
    /\ Len(result.path) >= 3

\* C6: findPath(c, c) for a passable c returns the one-node path [c]; the node has
\* g = 0 and no parent, and nothing was expanded or discovered.
C6_StartIsEnd ==
    (pc = "done" /\ Passable(start) /\ start = end) =>
        /\ result.kind = "path"
        /\ PathCoords = <<start>>
        /\ nodes[result.path[1]].g = 0
        /\ nodes[result.path[1]].parent = 0
        /\ closedSet = {}
        /\ Len(nodes) = 1

C6_Witness == ReturnedAPath /\ start = end /\ mapSize >= 2 /\ obstacles # {}

\* C7: a start or end outside the grid makes findPath throw the invalid-coordinate
\* error; nothing is searched and neither a path nor null is returned.
C7_OutOfBounds ==
    (pc = "done" /\ (~InBounds(start) \/ ~InBounds(end))) =>
        /\ result.kind = "error"
        /\ result.error \in InvalidCoordinateErrors
        /\ result.path = <<>>
        /\ nodes = <<>>

C7_Witness ==
    /\ Threw
    /\ InBounds(start)
    /\ ~InBounds(end)
    /\ result.error = "EndCoordinateInvalid"

\* C8 as stated: a start or end that is in bounds and an obstacle makes findPath
\* throw the blocked-endpoint error.
C8_Original ==
    (pc = "done" /\ ((InBounds(start) /\ Blocked(start)) \/ (InBounds(end) /\ Blocked(end)))) =>
        result.kind = "error" /\ result.error \in BlockedEndpointErrors

\* C8 amended: when start and end are both in bounds and one of them is an
\* obstacle, findPath throws the blocked-endpoint error and returns nothing.
C8_BlockedEndpoint ==
    (pc = "done" /\ InBounds(start) /\ InBounds(end) /\ (Blocked(start) \/ Blocked(end))) =>
        /\ result.kind = "error"
        /\ result.error \in BlockedEndpointErrors
        /\ result.path = <<>>

C8_Witness ==
    /\ Threw
    /\ Passable(start)
    /\ InBounds(end) /\ Blocked(end)
    /\ result.error = "EndIsObstacle"

\* C9: the constructor fails for mapSize <= 0, so an instance that exists, and any
\* instance findPath runs on, has mapSize > 0.
C9_ValidGrid ==
    /\ (phase # "new" /\ argMapSize <= 0) => phase = "failed"
    /\ phase = "ready" => (mapSize > 0 /\ mapSize = argMapSize)
    /\ pc # "idle" => (phase = "ready" /\ mapSize > 0)

C9_Witness == phase = "failed" /\ argMapSize = 0

\* C10: a findPath call with the start and end of an earlier returned call of the
\* same instance returns the same coordinate sequence, or null as the earlier
\* call did, whatever calls were made in between.
C10_Deterministic ==
    (pc = "done" /\ remembered # None
        /\ start = remembered.start /\ end = remembered.end) =>
        /\ result.kind = remembered.kind
        /\ PathCoords = remembered.coords

C10_Witness ==
    /\ pc = "done"
    /\ remembered # None
    /\ start = remembered.start /\ end = remembered.end
    /\ {"error", "path"} \subseteq remembered.between
    /\ result.kind = "path"
    /\ Len(result.path) >= 3

\* C11: a findPath call that throws does so at its entry, and the step that
\* throws keeps mapSize, obstacles and endPos and leaves the open list, the open
\* set, the closed set and the node arena empty.
C11_FailLeavesInstance ==
    [][(result'.kind = "error" /\ result.kind # "error") =>
          /\ pc = "idle"
          /\ result'.error \in InvalidCoordinateErrors \cup BlockedEndpointErrors
          /\ mapSize' = mapSize
          /\ obstacles' = obstacles
          /\ endPos' = endPos
          /\ nodes' = <<>>
          /\ openList' = <<>>
          /\ openSet' = <<>>
          /\ closedSet' = {}]_vars

C11_Witness ==
    /\ Threw
    /\ result.error \in BlockedEndpointErrors
    /\ endPos # None
    /\ endPos # end
    /\ nodes = <<>>

\* C12: a findPath call that passed validation reaches its return of a path or of
\* null; no step of the search throws; every expansion closes a cell of the grid
\* that was not closed before, so there is at most one expansion per cell.
C12_RunsToCompletion ==
    /\ [][pc # "idle" => result'.kind # "error"]_vars
    /\ [][(pc = "head" /\ pc' # "done") =>
            LET currentKey == Key(nodes[currentNode'].x, nodes[currentNode'].y)
            IN  /\ currentKey \in Cells(mapSize)
                /\ currentKey \notin closedSet
                /\ closedSet' = closedSet \cup {currentKey}]_vars
    /\ [](Cardinality(closedSet) <= mapSize * mapSize)
    /\ (pc = "head") ~> (pc = "done" /\ result.kind \in {"path", "null"})

C12_Witness ==
    /\ Returned
    /\ obstacles # {}
    /\ Cardinality(closedSet) >= 5

\* C13: the heuristic of every node is at most the number of steps from the node
\* to the end position on the grid without obstacles (h is held in units of 1/2).
C13_Admissible ==
    \A i \in 1..Len(nodes) :
        nodes[i].h <= HalfUnits * FreeSteps(<<nodes[i].x, nodes[i].y>>, endPos)

\* C14: when findPath and the bucket search both return a path for the same grid,
\* start and end, the two paths have the same number of steps.
C14_SameSteps ==
    (ReturnedAPath /\ SearchReturnedAPath) => Len(result.path) - 1 = BucketSteps

\* C15: a second search on the same graph, with the start and end of the search
\* that ran on the fresh graph, returns what that search returned.
C15_SecondAsFresh ==
    (search_pc = "done" /\ searches > 1 /\ fresh # None
        /\ search_start = fresh.start /\ search_end = fresh.end) =>
        search_result = fresh.result

\* C16: a path returned for start # end begins with end; each later element is
\* the prev of the element before it and has that element in its neighbour list;
\* start is no element; the prev of the last element is start.
C16_ResultShape ==
    (SearchReturnedAPath /\ search_start # search_end) =>
        LET path == search_result.path
        IN  /\ Len(path) >= 1
            /\ path[1] = search_end
            /\ \A k \in 1..(Len(path) - 1) :
                  /\ path[k + 1] = map_node[path[k]].prev
                  /\ \E j \in 1..Len(map_node[path[k + 1]].nodes) :
                        map_node[path[k + 1]].nodes[j] = path[k]
            /\ \A k \in 1..Len(path) : path[k] # search_start
            /\ map_node[path[Len(path)]].prev = search_start

C16_Witness ==
    /\ SearchReturnedAPath
    /\ Len(search_result.path) >= 3
    /\ map_node[search_start].prev # NoNode
    /\ \E i \in DOMAIN map_data : map_data[i] = 1

\* C17: a search ends by returning a path or null, and it returns null exactly
\* when no chain of links leads from start to end.
C17_NullIffUnreachable ==
    search_pc = "done" =>
        /\ search_result.kind \in {"path", "null"}
        /\ (search_result.kind = "null") <=> (LinkShortest(search_start, search_end) < 0)

C19_BucketOptimal ==
    (SearchReturnedAPath /\ searches = 1) =>
        BucketSteps = LinkShortest(search_start, search_end)

\* C20: every bucket index a search computes is one of 0, 1, 2, 3.
C20_IndexInRing == indices \subseteq 0..3

\* C21: the node an iteration selects has the least f of the open list and, of the
\* open nodes with that f, is the one created (and so inserted) first; the open
\* list holds its nodes in the order of their insertion.
C21_EarliestMinimum ==
    /\ [](\A i \in 1..(Len(openList) - 1) : openList[i] < openList[i + 1])
    /\ [][(pc = "head" /\ Len(openList) > 0) =>
            \A i \in 1..Len(openList) :
                \/ nodes[currentNode'].f < nodes[openList[i]].f
                \/ /\ nodes[currentNode'].f = nodes[openList[i]].f
                   /\ currentNode' <= openList[i]]_vars

C21_Witness ==
    /\ pc = "neighbors"
    /\ neighbors = getNeighbors(nodes[currentNode].x, nodes[currentNode].y)
    /\ \E i \in 1..Len(openList) :
          /\ nodes[openList[i]].f = nodes[currentNode].f
          /\ \E j \in 1..Len(openList) : j > i /\ nodes[openList[j]].f > nodes[currentNode].f

\* C22: during a call the closed set only grows, no node of the open list has a
\* closed coordinate, and the node an iteration expands has a coordinate that
\* was not closed before.
C22_ClosedSetGrows ==
    /\ [][(pc \in {"head", "neighbors"}) => (closedSet \subseteq closedSet')]_vars
    /\ [](\A i \in 1..Len(openList) :
             Key(nodes[openList[i]].x, nodes[openList[i]].y) \notin closedSet)
    /\ [][(pc = "head" /\ pc' \in {"head", "neighbors"}) =>
            /\ Key(nodes[currentNode'].x, nodes[currentNode'].y) \notin closedSet
            /\ Cardinality(closedSet') = Cardinality(closedSet) + 1]_vars

C22_Witness ==
    /\ pc = "neighbors"
    /\ Key(Head(neighbors)[1], Head(neighbors)[2]) \in closedSet
    /\ Cardinality(closedSet) >= 4

\* the open nodes that have the coordinate c
OpenAt(c) == {i \in 1..Len(nodes) : /\ \E k \in 1..Len(openList) : openList[k] = i
                                    /\ <<nodes[i].x, nodes[i].y>> = c}

\* C23: one step of the for loop, for a neighbour n that is not closed and the
\* cost g' = current.g + 1.  No open node at n: one node is created with g = g',
\* f = g' + h and parent = current and is appended to the open list.  An open
\* node at n with g' < g: its g, f and parent are updated, nothing else changes
\* and the open list is the same.  An open node with g' >= g: nothing changes.
C23_Relaxation ==
    [][(pc = "neighbors" /\ Head(neighbors) \notin closedSet) =>
          LET n == Head(neighbors)
              g == nodes[currentNode].g + 1
          IN  IF OpenAt(n) = {}
              THEN /\ Len(nodes') = Len(nodes) + 1
                   /\ SubSeq(nodes', 1, Len(nodes)) = nodes
                   /\ <<nodes'[Len(nodes')].x, nodes'[Len(nodes')].y>> = n
                   /\ nodes'[Len(nodes')].g = g
                   /\ nodes'[Len(nodes')].f = HalfUnits * g + nodes'[Len(nodes')].h
                   /\ nodes'[Len(nodes')].parent = currentNode
                   /\ openList' = Append(openList, Len(nodes'))
              ELSE \A e \in OpenAt(n) :
                      IF g < nodes[e].g
                      THEN /\ nodes'[e].g = g
                           /\ nodes'[e].f = HalfUnits * g + nodes[e].h
                           /\ nodes'[e].h = nodes[e].h
                           /\ nodes'[e].parent = currentNode
                           /\ <<nodes'[e].x, nodes'[e].y>> = n
                           /\ Len(nodes') = Len(nodes)
                           /\ \A i \in 1..Len(nodes) : i # e => nodes'[i] = nodes[i]
                           /\ openList' = openList
                           /\ openSet' = openSet
                      ELSE /\ nodes' = nodes
                           /\ openList' = openList
                           /\ openSet' = openSet]_vars

\* an updated node: it is older than the node that became its parent
C23_Witness ==
    /\ pc \in {"head", "neighbors"}
    /\ \E e \in 1..Len(nodes) :
          /\ nodes[e].parent = currentNode
          /\ currentNode > e
          /\ nodes[e].g = nodes[currentNode].g + 1
    /\ \E i \in 1..Len(nodes) : nodes[i].parent = currentNode /\ i > currentNode

\* the set of the elements of a sequence
Range(seq) == {seq[i] : i \in 1..Len(seq)}

\* C24: for every cell of the grid, getNeighbors returns, each once, exactly the
\* cells that the offsets of the cell's row parity lead to and that are in bounds
\* and not obstacles.
C24_AdjacencyRule ==
    phase = "ready" =>
        \A c \in Cells(mapSize) :
            /\ Range(getNeighbors(c[1], c[2])) =
                  {<<c[1] + o[1], c[2] + o[2]>> :
                      o \in {d \in (IF c[2] % 2 = 1 THEN OddRowOffsets ELSE EvenRowOffsets) :
                                /\ c[1] + d[1] >= 0 /\ c[1] + d[1] < mapSize
                                /\ c[2] + d[2] >= 0 /\ c[2] + d[2] < mapSize
                                /\ <<c[1] + d[1], c[2] + d[2]>> \notin obstacles}}
            /\ Cardinality(Range(getNeighbors(c[1], c[2]))) = Len(getNeighbors(c[1], c[2]))

\* an expansion of a cell of an odd row that has a neighbour beyond the edge, an
\* obstacle among its neighbours and a returned neighbour in each adjacent row
C24_Witness ==
    /\ pc = "neighbors"
    /\ neighbors = getNeighbors(nodes[currentNode].x, nodes[currentNode].y)
    /\ nodes[currentNode].y % 2 = 1
    /\ nodes[currentNode].x = mapSize - 1
    /\ \E b \in obstacles : HexAdjacent(<<nodes[currentNode].x, nodes[currentNode].y>>, b)
    /\ \E i \in 1..Len(neighbors) : neighbors[i][2] = nodes[currentNode].y - 1
    /\ \E i \in 1..Len(neighbors) : neighbors[i][2] = nodes[currentNode].y + 1

\* following parent from node i leads to the start node (reference 1) and meets
\* no node of `seen` on the way
RECURSIVE ReachesRoot(_, _)
ReachesRoot(i, seen) ==
    IF i = 1 THEN TRUE
    ELSE IF i = 0 \/ i \in seen THEN FALSE
    ELSE ReachesRoot(nodes[i].parent, seen \cup {i})

\* C25: the first node is the start node, with g = 0, and it alone has no parent;
\* every other node has g = g(parent) + 1 and its parent chain reaches the start
\* node without meeting a node twice; a returned path has g(end) + 1 elements.
C25_ParentTree ==
    nodes # <<>> =>
        /\ <<nodes[1].x, nodes[1].y>> = start
        /\ nodes[1].parent = 0
        /\ nodes[1].g = 0
        /\ \A i \in 2..Len(nodes) :
              /\ nodes[i].parent \in 1..Len(nodes)
              /\ nodes[i].g = nodes[nodes[i].parent].g + 1
              /\ ReachesRoot(i, {})
        /\ ReturnedAPath => Len(result.path) = nodes[currentNode].g + 1

\* a returned path through a node whose parent was replaced by a younger node
C25_Witness ==
    /\ ReturnedAPath
    /\ Len(result.path) >= 5
    /\ \E k \in 1..Len(result.path) : nodes[result.path[k]].parent > result.path[k]

\* C26: at the head of the loop the open list and the open map hold the same
\* coordinates, the map gives for each coordinate the node the list holds, the
\* list holds no coordinate twice and none that is closed.
C26_FrontierConsistent ==
    pc = "head" =>
        LET coord(i) == Key(nodes[openList[i]].x, nodes[openList[i]].y)
        IN  /\ {coord(i) : i \in 1..Len(openList)} = DOMAIN openSet
            /\ \A i \in 1..Len(openList) : openSet[coord(i)] = openList[i]
            /\ \A i \in 1..Len(openList), j \in 1..Len(openList) :
                  coord(i) = coord(j) => i = j
            /\ \A i \in 1..Len(openList) : coord(i) \notin closedSet

C26_Witness ==
    /\ pc = "head"
    /\ Len(openList) >= 3
    /\ Cardinality(closedSet) >= 3
    /\ openList[1] # 1
    /\ obstacles # {}

\* b is a plus one of the directions getNeighbors takes for the row of a
DirectionLeads(a, b) ==
    LET directions == IF a[2] % 2 # 0 THEN oddRowDirections ELSE evenRowDirections
    IN  \E i \in 1..Len(directions) : b = <<a[1] + directions[i][1], a[2] + directions[i][2]>>

\* C27: for every two cells a and b of the grid, b is a plus a direction of a's
\* row exactly when a is b plus a direction of b's row; and between passable
\* cells getNeighbors returns b for a exactly when it returns a for b (stated
\* for the grid of every call, when the call has ended).
C27_AdjacencySymmetric ==
    (phase = "ready" /\ pc = "done") =>
        \A a \in Cells(mapSize), b \in Cells(mapSize) :
            /\ DirectionLeads(a, b) <=> DirectionLeads(b, a)
            /\ (a \notin obstacles /\ b \notin obstacles) =>
                  (b \in Range(getNeighbors(a[1], a[2])) <=> a \in Range(getNeighbors(b[1], b[2])))

\* the for loop meets, from a cell of an even row, the closed cell of an odd row
\* and another column from which that cell was discovered
C27_Witness ==
    /\ pc = "neighbors"
    /\ mapSize = 3
    /\ nodes[currentNode].y % 2 = 0
    /\ Head(neighbors) \in closedSet
    /\ Head(neighbors) = <<nodes[nodes[currentNode].parent].x, nodes[nodes[currentNode].parent].y>>
    /\ Head(neighbors)[2] % 2 = 1
    /\ Head(neighbors)[1] # nodes[currentNode].x

\* the 4-neighbour grid of MapView2, written without its getNeighbors
RectPassable(c) ==
    /\ c[1] \in 0..(RectMapSize - 1)
    /\ c[2] \in 0..(RectMapSize - 1)
    /\ c \notin v2_obstacles

RectSteps(a) ==
    {b \in {<<a[1] - 1, a[2]>>, <<a[1] + 1, a[2]>>, <<a[1], a[2] - 1>>, <<a[1], a[2] + 1>>} :
        RectPassable(b)}

RECURSIVE RectBreadthFirst(_, _, _, _)
RectBreadthFirst(frontier, seen, to, depth) ==
    IF to \in frontier THEN depth
    ELSE IF frontier = {} THEN 0 - 1
    ELSE LET reached == (UNION {RectSteps(a) : a \in frontier}) \ seen
         IN  RectBreadthFirst(reached, seen \cup reached, to, depth + 1)

RectShortest(from, to) == RectBreadthFirst({from}, {from}, to, 0)

\* the number of parent links from a node of MapView2.findPath to the start node
RECURSIVE RectChainSteps(_)
RectChainSteps(n) == IF v2_nodes[n].parent = 0 THEN 0 ELSE 1 + RectChainSteps(v2_nodes[n].parent)

\* C28: when MapView2.findPath reaches the end node, the parent chain of the end
\* node has as many links as a shortest 4-neighbour path from start to end has
\* steps.
C28_RectOptimal ==
    (v2_pc = "done" /\ v2_drawn # None) =>
        RectChainSteps(v2_currentNode) = RectShortest(v2_startPos, v2_endPos)

\* C29: the first click sets the start, and after a click that set the start the
\* next sets the end and the other way round.  A click that sets the start
\* leaves the end unset and makes no call; a click that sets the end keeps a set
\* start and enters MapView.findPath.  The end is never set while the start is
\* unset.  AStar.findPath is entered only in the handler of a click that set
\* the end, with the start and end of the view; that handler ends only when the
\* call has ended, and the end of the call ends the handler.
C29_ClickProtocol ==
    /\ [](view_endPos # None => view_startPos # None)
    /\ [][view_clicks' # view_clicks =>
            /\ view_last' = (IF view_last = "start" THEN "end" ELSE "start")
            /\ view_last' = "start" =>
                  (view_startPos' # None /\ view_endPos' = None /\ view_pc' = "idle")
            /\ view_last' = "end" =>
                  /\ view_startPos' = view_startPos
                  /\ view_startPos # None
                  /\ view_endPos = None
                  /\ view_endPos' # None
                  /\ view_pc' = "findPath"]_vars
    /\ [][(pc = "idle" /\ pc' # "idle") =>
            /\ view_pc = "findPath"
            /\ view_last = "end"
            /\ start' = view_startPos
            /\ end' = view_endPos]_vars
    /\ [][(view_pc = "findPath" /\ view_pc' = "idle") => pc = "done"]_vars
    /\ [][(pc # "idle" /\ pc' = "idle") => view_pc' = "idle"]_vars

\* the fourth click: the second end of the view, and its call has returned
C29_Witness ==
    /\ view_clicks = 4
    /\ view_last = "end"
    /\ view_pc = "findPath"
    /\ pc = "done"
    /\ view_startPos # view_endPos

\* C30: no AStar that MapView builds fails in its constructor, and no findPath
\* call that MapView makes throws.
C30_ViewCallsValid ==
    /\ phase # "failed"
    /\ result.kind # "error"
    /\ pc # "idle" =>
          /\ mapSize = ViewMapSize
          /\ obstacles = view_obstacles
          /\ start = view_startPos /\ InBounds(start) /\ ~Blocked(start)
          /\ end = view_endPos /\ InBounds(end) /\ ~Blocked(end)

C30_Witness ==
    /\ view_pc = "findPath"
    /\ view_clicks >= 3
    /\ Returned
    /\ Cardinality(obstacles) = 2
    /\ Cardinality(closedSet) >= 2

\* the estimate of calculateHeuristic from a cell to the cell `to`, doubled
EstimateTo(x, y, to) ==
    LET dx == Abs(x - to[1])
        dy == Abs(y - to[2])
    IN  HalfUnits * Max(dx, dy) + Min(dx, dy)

\* C31: at the head of every iteration of the while loop every node of the open
\* list has f = g + h (f and h are kept doubled, so f = 2g + h here).  During a
\* call the h of every node is the estimate from its cell to the end argument
\* of the call, and no step of the call changes the h of a node that exists,
\* the in-place lowering of g included.
C31_FIsGPlusH ==
    /\ [](pc = "head" =>
            \A k \in 1..Len(openList) :
                nodes[openList[k]].f = HalfUnits * nodes[openList[k]].g + nodes[openList[k]].h)
    /\ [](pc # "idle" =>
            \A i \in 1..Len(nodes) : nodes[i].h = EstimateTo(nodes[i].x, nodes[i].y, end))
    /\ [][(pc # "idle" /\ pc' # "idle") =>
            /\ Len(nodes') >= Len(nodes)
            /\ \A i \in 1..Len(nodes) : nodes'[i].h = nodes[i].h]_vars

\* the head of an iteration with an open node whose g was lowered in place: its
\* parent was created after it
C31_Witness ==
    /\ pc = "head"
    /\ \E k \in 1..Len(openList) :
          /\ nodes[openList[k]].parent > openList[k]
          /\ nodes[openList[k]].h > 0
          /\ nodes[openList[k]].f = HalfUnits * nodes[openList[k]].g + nodes[openList[k]].h

====
